---------------------------- MODULE Spec2Model ----------------------------
(***************************************************************************)
(* StatEase front end: the App component (upload / analysis / results      *)
(* views), the FileUpload component, the DataPreview tabs, the             *)
(* AnalysisSelection component with its registry of statistical tests,     *)
(* and the AnalysisResults renderer, together with the HTTP requests the   *)
(* handlers leave in flight.                                               *)
(*                                                                         *)
(* Conventions.  A nullable JavaScript value is a sequence of length at    *)
(* most one: None is null/undefined, Some(v) is v.  A string that the code *)
(* only tests for truthiness is kept as a string, "" being the falsy one.  *)
(* A file name is a sequence of one-character strings so that              *)
(* name.split('.').pop().toLowerCase() is computed, not assumed.           *)
(* State of a component that is not mounted is kept at its useState        *)
(* initial value: that is the value the next mount starts from.            *)
(***************************************************************************)
EXTENDS Integers, Sequences, FiniteSets, TLC

None == << >>
Some(v) == << v >>

\* ------------------------------------------------------------------------
\* Bounds of the model
\* ------------------------------------------------------------------------

\* Handler calls that send a request (uploadFile, handleUseSample,
\* handleAnalyze) in one behaviour.
MaxCalls == 2

\* The same where requests are made to overlap: two uploads and an
\* analysis, or an upload and two analyses.
MaxOverlapCalls == 3

\* Calls of handleDownload in one behaviour.
MaxDownloads == 1

\* ------------------------------------------------------------------------
\* AnalysisSelection: the registry of tests
\* ------------------------------------------------------------------------

TestSpec(id, name, description, category, variables, variableTypes, dataRequirements) ==
    [ id |-> id, name |-> name, description |-> description, category |-> category,
      requirements |-> [ variables |-> variables,
                         variableTypes |-> variableTypes,
                         dataRequirements |-> dataRequirements ] ]

statisticalTests ==
    << TestSpec("independent_t", "Independent t-test",
                "Compare means between two independent groups", "comparison",
                2, <<"numeric", "categorical">>, <<"Normality", "Equal variances">>),
       TestSpec("paired_t", "Paired t-test",
                "Compare means from the same group at different times", "comparison",
                2, <<"numeric", "numeric">>, <<"Normality", "Paired measurements">>),
       TestSpec("anova", "One-way ANOVA",
                "Compare means between three or more groups", "comparison",
                2, <<"numeric", "categorical">>,
                <<"Normality", "Equal variances", "Independence">>),
       TestSpec("pearson", "Pearson Correlation",
                "Measure linear relationship between two continuous variables",
                "correlation",
                2, <<"numeric", "numeric">>, <<"Linear relationship", "Normality">>),
       TestSpec("spearman", "Spearman Correlation",
                "Measure monotonic relationship between two variables", "correlation",
                2, <<"numeric", "numeric">>, <<"Monotonic relationship">>),
       TestSpec("chi_square", "Chi-square Test",
                "Test association between categorical variables", "nonparametric",
                2, <<"categorical", "categorical">>, <<"Expected frequencies >5">>),
       TestSpec("linear_regression", "Linear Regression",
                "Predict continuous outcome based on predictor variables", "regression",
                -1, <<"numeric", "numeric">>,
                <<"Linearity", "Independence", "Homoscedasticity", "Normality">>),
       TestSpec("mann_whitney", "Mann-Whitney U Test",
                "Non-parametric alternative to independent t-test", "nonparametric",
                2, <<"numeric", "categorical">>,
                <<"Ordinal data or non-normal distributions">>),
       TestSpec("shapiro_wilk", "Shapiro-Wilk Test",
                "Test for normality of data distribution", "normality",
                1, <<"numeric">>, <<"Continuous data">>),
       TestSpec("levene", "Levene's Test",
                "Test for equality of variances between groups", "normality",
                2, <<"numeric", "categorical">>, <<"Continuous dependent variable">>) >>

\* ------------------------------------------------------------------------
\* State
\* ------------------------------------------------------------------------

VARIABLES
    \* App
    uploadData,         \* None or Some(dataset)
    currentView,        \* "upload" | "analysis" | "results"
    analysisResults,    \* None or Some(results)
    isAnalyzing,
    analysisSelection,  \* None or Some(selection)
    crashed,            \* a render threw: React has unmounted the whole tree
    \* FileUpload (mounted in the upload view)
    selectedFile,       \* None or Some(file)
    isUploading,
    uploadError,        \* None or Some(message)
    \* DataPreview (mounted in the analysis view)
    activeTab,          \* "preview" | "columns" | "stats" | "analysis"
    \* AnalysisSelection (mounted under the analysis tab)
    selectedTest,       \* "" or a test id
    selectedVariables,  \* sequence of column names
    groupVariable,      \* "" or a column name
    \* AnalysisResults (mounted in the results view)
    resultsTab,         \* "results" | "interpretation"
    \* DownloadReport (mounted inside AnalysisResults)
    isDownloading,
    \* Module scope of AnalysisSelection.tsx
    registry,           \* the statisticalTests array
    \* Environment
    requests,           \* the requests in flight, each with the way it will end
    alerts,             \* the messages shown with alert(), oldest first
    nCalls,             \* calls of each handler that sends requests
    nSent               \* requests of each kind put on the network

\* Array.prototype.includes
Includes(s, v) == \E i \in 1..Len(s) : s[i] = v

\* statisticalTests.find(t => t.id === testId): the first match, or undefined.
FindTest(testId) ==
    LET hits == SelectSeq(registry, LAMBDA t : t.id = testId)
    IN  IF hits = << >> THEN None ELSE Some(Head(hits))

\* ------------------------------------------------------------------------
\* Columns of an uploaded dataset.  column_types is a JavaScript object: its
\* keys keep insertion order, hence a sequence of (name, type) entries.
\* ------------------------------------------------------------------------

Col(name, type) == [ name |-> name, type |-> type ]

\* Object.keys(columnTypes)
allColumns(columnTypes) == [ i \in 1..Len(columnTypes) |-> columnTypes[i].name ]

\* columnTypes[column]
TypeOf(columnTypes, column) ==
    LET hits == SelectSeq(columnTypes, LAMBDA c : c.name = column)
    IN  IF hits = << >> THEN "undefined" ELSE Head(hits).type

numericColumns(columnTypes) ==
    allColumns(SelectSeq(columnTypes, LAMBDA c : c.type = "numeric"))

categoricalColumns(columnTypes) ==
    allColumns(SelectSeq(columnTypes, LAMBDA c : c.type = "categorical"))

\* A filter that only looks for numeric columns.
getAvailableTestsNumericOnly(columnTypes) ==
    LET hasNumeric == Len(numericColumns(columnTypes)) > 0
    IN  SelectSeq(registry,
               LAMBDA test :
                   ~(Includes(test.requirements.variableTypes, "numeric") /\ ~hasNumeric))

getAvailableTests(columnTypes) ==
    LET hasNumeric == Len(numericColumns(columnTypes)) > 0
        hasCategorical == Len(categoricalColumns(columnTypes)) > 0
    IN  SelectSeq(registry,
               LAMBDA test :
                   /\ ~(Includes(test.requirements.variableTypes, "numeric") /\ ~hasNumeric)
                   /\ ~(Includes(test.requirements.variableTypes, "categorical")
                          /\ ~hasCategorical))

\* A handleVariableSelect that puts a newly selected variable first.
handleVariableSelectPrepend(testId, vars, variable) ==
    LET test == FindTest(testId)
    IN  IF test = None THEN vars
        ELSE IF test[1].requirements.variables = 1 THEN << variable >>
        ELSE IF Includes(vars, variable) THEN SelectSeq(vars, LAMBDA v : v # variable)
        ELSE IF test[1].requirements.variables = -1
                  \/ Len(vars) < test[1].requirements.variables
             THEN << variable >> \o vars
        ELSE vars

\* A handleVariableSelect without the early return for a test that is not
\* found: the arity test then compares with undefined and appends.
handleVariableSelectNoLookup(testId, vars, variable) ==
    LET test == FindTest(testId)
    IN  IF test # None /\ test[1].requirements.variables = 1 THEN << variable >>
        ELSE IF Includes(vars, variable) THEN SelectSeq(vars, LAMBDA v : v # variable)
        ELSE IF test = None
                  \/ test[1].requirements.variables = -1
                  \/ Len(vars) < test[1].requirements.variables
             THEN Append(vars, variable)
        ELSE vars

\* A handleVariableSelect without the length test of its last branch.
handleVariableSelectNoLimit(testId, vars, variable) ==
    LET test == FindTest(testId)
    IN  IF test = None THEN vars
        ELSE IF test[1].requirements.variables = 1 THEN << variable >>
        ELSE IF Includes(vars, variable) THEN SelectSeq(vars, LAMBDA v : v # variable)
        ELSE Append(vars, variable)

\* The new selectedVariables after handleVariableSelect(variable).
handleVariableSelectResult(testId, vars, variable) ==
    LET test == FindTest(testId)
    IN  IF test = None THEN vars
        ELSE IF test[1].requirements.variables = 1 THEN << variable >>
        ELSE IF Includes(vars, variable) THEN SelectSeq(vars, LAMBDA v : v # variable)
        ELSE IF test[1].requirements.variables = -1
                  \/ Len(vars) < test[1].requirements.variables
             THEN Append(vars, variable)
        ELSE vars

\* The disabled attribute of a variable checkbox.
CheckboxDisabled(testId, vars, column) ==
    LET test == FindTest(testId)
        isUnbounded == test # None /\ test[1].requirements.variables = -1
        limit == IF test = None THEN 0 ELSE test[1].requirements.variables
    IN  /\ ~Includes(vars, column)
        /\ ~isUnbounded
        /\ Len(vars) >= limit


\* ------------------------------------------------------------------------
\* FileUpload: validation of a chosen file
\* ------------------------------------------------------------------------

acceptedTypes ==
    { ".csv", ".xlsx",
      "application/vnd.openxmlformats-officedocument.spreadsheetml.sheet",
      "text/csv" }

\* 10 * 1024 * 1024 bytes
MaxFileSize == 10485760

\* The letters A to Z and, at the same index, their lower-case forms.
UpperCaseLetters ==
    << "A", "B", "C", "D", "E", "F", "G", "H", "I", "J", "K", "L", "M",
       "N", "O", "P", "Q", "R", "S", "T", "U", "V", "W", "X", "Y", "Z" >>

LowerCaseLetters ==
    << "a", "b", "c", "d", "e", "f", "g", "h", "i", "j", "k", "l", "m",
       "n", "o", "p", "q", "r", "s", "t", "u", "v", "w", "x", "y", "z" >>

\* String.prototype.toLowerCase on one character: a letter A to Z becomes
\* its lower-case form, every other ASCII character stays as it is.
LowerChar(c) ==
    IF \E i \in 1..Len(UpperCaseLetters) : UpperCaseLetters[i] = c
    THEN LowerCaseLetters[CHOOSE i \in 1..Len(UpperCaseLetters) : UpperCaseLetters[i] = c]
    ELSE c

toLowerCase(s) == [ i \in 1..Len(s) |-> LowerChar(s[i]) ]

\* The string a sequence of characters spells.
RECURSIVE Join(_)
Join(s) == IF s = << >> THEN "" ELSE Head(s) \o Join(Tail(s))

\* Index of the last '.' of a name, 0 when it has none.
LastDot(name) ==
    LET dots == { i \in 1..Len(name) : name[i] = "." }
    IN  IF dots = {} THEN 0 ELSE CHOOSE i \in dots : \A j \in dots : j <= i

\* file.name.split('.').pop()?.toLowerCase(): the text after the last '.',
\* the whole name when it has no '.' (split then yields the name alone).
fileExtension(name) == toLowerCase(SubSeq(name, LastDot(name) + 1, Len(name)))

\* The type check of processFile: TRUE when the file passes it.
TypeAccepted(file) ==
    ~( ("." \o Join(fileExtension(file.name))) \notin acceptedTypes
       /\ file.type \notin acceptedTypes )

\* The size check of processFile: TRUE when the file passes it.
SizeAccepted(file) == ~(file.size > MaxFileSize)

TypeErrorMessage == "Please upload a CSV or XLSX file only."
SizeErrorMessage ==
    "File size must be less than 10MB. For larger files, please use sample mode."
TimeoutMessage == "Upload timeout. Please try a smaller file."

\* What uploadFile passes to setUploadError for a response with success = false.
UploadFailureMessage(data) == IF data.error # "" THEN data.error ELSE "Upload failed"

\* A catch block without the ECONNABORTED test.
UploadErrorMessageNoTimeout(error) ==
    IF error.status = 413 THEN "File too large. Maximum size is 10MB."
    ELSE IF error.status = 400
         THEN IF error.detail # "" THEN error.detail ELSE "Invalid file format."
    ELSE IF error.detail # "" THEN error.detail
    ELSE IF error.message # "" THEN error.message
    ELSE "Failed to upload file. Please check your connection and try again."

\* What the catch block of uploadFile passes to setUploadError.  error.code,
\* error.message and the response's detail are "" when absent; status is 0
\* when the error carries no response.
UploadErrorMessage(error) ==
    IF error.code = "ECONNABORTED" THEN TimeoutMessage
    ELSE IF error.status = 413 THEN "File too large. Maximum size is 10MB."
    ELSE IF error.status = 400
         THEN IF error.detail # "" THEN error.detail ELSE "Invalid file format."
    ELSE IF error.detail # "" THEN error.detail
    ELSE IF error.message # "" THEN error.message
    ELSE "Failed to upload file. Please check your connection and try again."

\* What the catch block of handleAnalyze passes to alert.
AnalyzeErrorMessage(error) ==
    IF error.detail # "" THEN error.detail ELSE "Failed to run analysis"

SampleErrorMessage == "Failed to load sample data. Please try again."


\* ------------------------------------------------------------------------
\* Values exchanged with the server
\* ------------------------------------------------------------------------

File(name, type, size) == [ name |-> name, type |-> type, size |-> size ]

\* response.data of a successful upload, as far as the front end reads it.
Dataset(filename, column_types) == [ filename |-> filename, column_types |-> column_types ]

\* How a request ends.  resolved: the promise resolves (else it rejects);
\* success, data, error: response.data of a resolved request; code, status,
\* detail, message: error.code, error.response.status,
\* error.response.data.detail and error.message of a rejected one.
Outcome(resolved, success, data, error, code, status, detail, message) ==
    [ resolved |-> resolved, success |-> success, data |-> data, error |-> error,
      code |-> code, status |-> status, detail |-> detail, message |-> message ]

Succeeds(data) == Outcome(TRUE, TRUE, data, "", "", 200, "", "")
Refuses(error) == Outcome(TRUE, FALSE, None, error, "", 200, "", "")
Rejects(code, status, detail, message) ==
    Outcome(FALSE, FALSE, None, "", code, status, detail, message)

Failed(o) == ~(o.resolved /\ o.success)

\* The tag in results.test for each test id.  The eight tags that
\* renderResults names are taken from its case labels; the server gives
\* linear regression and Mann-Whitney results tags of their own.
ResultTag(testId) ==
    CASE testId = "independent_t" -> "independent_t_test"
      [] testId = "paired_t" -> "paired_t_test"
      [] testId = "anova" -> "one_way_anova"
      [] testId = "pearson" -> "pearson_correlation"
      [] testId = "spearman" -> "spearman_correlation"
      [] testId = "chi_square" -> "chi_square_test"
      [] testId = "linear_regression" -> "linear_regression"
      [] testId = "mann_whitney" -> "mann_whitney_u_test"
      [] testId = "shapiro_wilk" -> "shapiro_wilk_test"
      [] testId = "levene" -> "levene_test"
      [] OTHER -> "unknown"

\* response.data.results of a successful analysis as far as the front end
\* reads it: the tag in results.test, and the request that is answered, which
\* tells one answer from another.  The statistics are not modelled.
Results(body) == [ test |-> ResultTag(body.test_id), request |-> body ]

\* AnalysisResults.renderResults: the branch of the switch on results.test.
renderResults(results) ==
    CASE results.test = "independent_t_test" -> "independent_t_test"
      [] results.test = "paired_t_test" -> "paired_t_test"
      [] results.test = "one_way_anova" -> "one_way_anova"
      [] results.test \in {"pearson_correlation", "spearman_correlation"} -> "correlation"
      [] results.test = "chi_square_test" -> "chi_square_test"
      [] results.test = "shapiro_wilk_test" -> "shapiro_wilk_test"
      [] results.test = "levene_test" -> "levene_test"
      [] OTHER -> "Unknown test type"

\* ------------------------------------------------------------------------
\* Initial state
\* ------------------------------------------------------------------------

appVars == << uploadData, currentView, analysisResults, isAnalyzing, analysisSelection, crashed >>
fileUploadVars == << selectedFile, isUploading, uploadError >>
selectionVars == << selectedTest, selectedVariables, groupVariable >>
envVars == << requests, alerts, nCalls, nSent >>
resultsVars == << resultsTab, isDownloading >>
vars == << appVars, fileUploadVars, activeTab, selectionVars, resultsVars, registry, envVars >>

Handlers == { "uploadFile", "handleUseSample", "handleAnalyze", "handleDownload" }
Kinds == { "upload", "fetch", "sample_upload", "analyze", "download" }

Init ==
    /\ uploadData = None
    /\ currentView = "upload"
    /\ analysisResults = None
    /\ isAnalyzing = FALSE
    /\ analysisSelection = None
    /\ crashed = FALSE
    /\ selectedFile = None
    /\ isUploading = FALSE
    /\ uploadError = None
    /\ activeTab = "preview"
    /\ selectedTest = ""
    /\ selectedVariables = << >>
    /\ groupVariable = ""
    /\ resultsTab = "results"
    /\ isDownloading = FALSE
    /\ registry = statisticalTests
    /\ requests = {}
    /\ alerts = << >>
    /\ nCalls = [ h \in Handlers |-> 0 ]
    /\ nSent = [ k \in Kinds |-> 0 ]

\* ------------------------------------------------------------------------
\* Mounting
\* ------------------------------------------------------------------------

FileUploadMounted == ~crashed /\ currentView = "upload"
DataPreviewShown == ~crashed /\ currentView = "analysis" /\ uploadData # None
AnalysisSelectionMounted == DataPreviewShown /\ activeTab = "analysis"
AnalysisResultsMounted == ~crashed /\ currentView = "results"
DownloadReportMounted == AnalysisResultsMounted /\ analysisResults # None

\* columnTypes prop of AnalysisSelection
columnTypes == uploadData[1].column_types

\* The requests of a FileUpload that has unmounted: its setState calls no
\* longer reach any component.
Orphaned(reqs) ==
    { IF r.kind = "upload" THEN [ r EXCEPT !.live = FALSE ] ELSE r : r \in reqs }

\* The same for the requests of a DownloadReport that has unmounted.
OrphanedDownloads(reqs) ==
    { IF r.kind = "download" THEN [ r EXCEPT !.live = FALSE ] ELSE r : r \in reqs }

\* An array with its first element removed in place (Array.prototype.shift).
ArrayAfterShift(array) == Tail(array)

\* Array.prototype.filter and Array.prototype.find build their result and
\* leave the array they are called on as it is: the array after the call.
ArrayAfterFilter(array) == array

ArrayAfterFind(array) == array

\* Every render of a mounted AnalysisSelection calls getAvailableTests, which
\* filters the registry.  Conjoined last in each action: it reads the
\* state the action leaves.
renderAnalysisSelection ==
    registry' = IF AnalysisSelectionMounted' THEN ArrayAfterFilter(registry) ELSE registry

\* The App re-renders with view and data; reqs are the requests left in
\* flight.  Components that stay mounted keep their state, the others start
\* from their initial state when they mount again.  The results view reads
\* uploadData.filename while rendering and throws when uploadData is null.
Navigate(view, data, reqs) ==
    /\ currentView' = view
    /\ uploadData' = data
    /\ crashed' = (view = "results" /\ data = None)
    /\ IF view = "upload" /\ currentView = "upload"
       THEN UNCHANGED fileUploadVars
       ELSE /\ selectedFile' = None
            /\ isUploading' = FALSE
            /\ uploadError' = None
    /\ requests' =
           LET left == IF view = "upload" /\ currentView = "upload"
                       THEN reqs ELSE Orphaned(reqs)
           IN  IF view = "results" /\ currentView = "results"
               THEN left ELSE OrphanedDownloads(left)
    /\ IF view = "analysis" /\ currentView = "analysis"
       THEN /\ UNCHANGED activeTab
            /\ IF data # None /\ uploadData # None
               THEN UNCHANGED selectionVars
               ELSE /\ selectedTest' = ""
                    /\ selectedVariables' = << >>
                    /\ groupVariable' = ""
       ELSE /\ activeTab' = "preview"
            /\ selectedTest' = ""
            /\ selectedVariables' = << >>
            /\ groupVariable' = ""
    /\ IF view = "results" /\ currentView = "results"
       THEN UNCHANGED resultsVars
       ELSE /\ resultsTab' = "results"
            /\ isDownloading' = FALSE

\* ------------------------------------------------------------------------
\* Sending
\* ------------------------------------------------------------------------

TotalCalls == nCalls["uploadFile"] + nCalls["handleUseSample"] + nCalls["handleAnalyze"]
TotalSent ==
    nSent["upload"] + nSent["fetch"] + nSent["sample_upload"] + nSent["analyze"]
        + nSent["download"]

\* The model's budget of handler calls; it guards the disjuncts of the
\* next-state relations, the handlers themselves have no such test.
CanCall == TotalCalls < MaxCalls

CanCallOverlap == TotalCalls < MaxOverlapCalls

CanDownload == nCalls["handleDownload"] < MaxDownloads

Request(kind, body, outcome) ==
    [ id |-> TotalSent + 1, kind |-> kind, body |-> body, outcome |-> outcome, live |-> TRUE ]


Send(kind, body, outcome) ==
    /\ requests' = requests \cup { Request(kind, body, outcome) }
    /\ nSent' = [ nSent EXCEPT ![kind] = @ + 1 ]

Called(handler) == nCalls' = [ nCalls EXCEPT ![handler] = @ + 1 ]

\* ------------------------------------------------------------------------
\* FileUpload
\* ------------------------------------------------------------------------

\* uploadFile up to its await: the flags, then the POST of the form data.
uploadFile(file, outcome) ==
    /\ isUploading' = TRUE
    /\ uploadError' = None
    /\ Send("upload", [ file |-> file ], outcome)
    /\ Called("uploadFile")

\* processFile up to the await inside uploadFile.
processFile(file, outcome) ==
    /\ FileUploadMounted
    /\ IF ~TypeAccepted(file)
       THEN /\ uploadError' = Some(TypeErrorMessage)
            /\ UNCHANGED << selectedFile, isUploading, envVars >>
       ELSE IF ~SizeAccepted(file)
       THEN /\ uploadError' = Some(SizeErrorMessage)
            /\ UNCHANGED << selectedFile, isUploading, envVars >>
       ELSE /\ selectedFile' = Some(file)
            /\ uploadFile(file, outcome)
            /\ UNCHANGED alerts
    /\ UNCHANGED << appVars, activeTab, selectionVars, resultsVars >>
    /\ renderAnalysisSelection

\* The hidden file input's change event.  The input is disabled, and the
\* drop zone's click handler removed, while isUploading.
handleFileInput(file, outcome) ==
    /\ ~isUploading
    /\ processFile(file, outcome)

\* A file dropped on the drop zone: handleDrop has no isUploading test.
handleDrop(file, outcome) == processFile(file, outcome)

\* App.handleFileUpload, the onFileUpload prop; reqs are the requests left.
handleFileUpload(data, reqs) == Navigate("analysis", Some(data), reqs)

\* uploadFile from its await on: the response (or the error) of upload r.
\* The setState calls reach the FileUpload only if it is the instance that
\* sent r and is still mounted; onFileUpload reaches the App in any case.
UploadSettled(r) ==
    /\ r \in requests
    /\ r.kind = "upload"
    /\ LET o == r.outcome
           rest == requests \ {r}
           reaches == r.live /\ FileUploadMounted
       IN  IF crashed
           THEN /\ requests' = rest
                /\ UNCHANGED << appVars, fileUploadVars, activeTab, selectionVars, resultsVars >>
           ELSE IF o.resolved /\ o.success
           THEN /\ handleFileUpload(o.data[1], rest)
                /\ UNCHANGED << analysisResults, isAnalyzing, analysisSelection >>
           ELSE /\ requests' = rest
                /\ uploadError' =
                       IF ~reaches THEN uploadError
                       ELSE IF o.resolved THEN Some(UploadFailureMessage(o))
                       ELSE Some(UploadErrorMessage(o))
                /\ isUploading' = IF reaches THEN FALSE ELSE isUploading
                /\ UNCHANGED << appVars, selectedFile, activeTab, selectionVars, resultsVars >>
    /\ UNCHANGED << alerts, nCalls, nSent >>
    /\ renderAnalysisSelection

\* ------------------------------------------------------------------------
\* App: sample data
\* ------------------------------------------------------------------------

\* new File([sampleData], 'sample_football_data.csv', { type: 'text/csv' }):
\* the size of the file is the length of the text that was fetched.
SampleFile(sampleData) ==
    File(<< "s", "a", "m", "p", "l", "e", "_", "f", "o", "o", "t",
            "b", "a", "l", "l", "_", "d", "a", "t", "a", ".", "c", "s", "v" >>,
         "text/csv", Len(sampleData))

\* handleUseSample up to its first await.  The button is rendered in the
\* upload view and disabled while isAnalyzing.
handleUseSample(outcome) ==
    /\ ~crashed
    /\ currentView = "upload"
    /\ ~isAnalyzing
    /\ isAnalyzing' = TRUE
    /\ Send("fetch", [ url |-> "/sample.csv" ], outcome)
    /\ Called("handleUseSample")
    /\ UNCHANGED << uploadData, currentView, analysisResults, analysisSelection, crashed,
                    fileUploadVars, activeTab, selectionVars, resultsVars, alerts >>
    /\ renderAnalysisSelection

\* The catch and finally blocks of handleUseSample for request r.
SampleCatch(r) ==
    /\ alerts' = Append(alerts, SampleErrorMessage)
    /\ requests' = requests \ {r}
    /\ UNCHANGED nSent

\* handleUseSample from await fetch('/sample.csv') on: the handler goes on
\* to read the body of the response, whatever its status, or the catch
\* block runs.  The response keeps the id of its request.
FetchSettled(r) ==
    /\ r \in requests
    /\ r.kind = "fetch"
    /\ IF r.outcome.resolved
       THEN /\ requests' = (requests \ {r}) \cup { [ r EXCEPT !.kind = "text" ] }
            /\ UNCHANGED << alerts, isAnalyzing, nSent >>
       ELSE /\ SampleCatch(r)
            /\ isAnalyzing' = IF crashed THEN isAnalyzing ELSE FALSE
    /\ UNCHANGED << uploadData, currentView, analysisResults, analysisSelection, crashed,
                    fileUploadVars, activeTab, selectionVars, resultsVars, nCalls >>
    /\ renderAnalysisSelection

\* handleUseSample from await response.text() on: the body has been read
\* (read) and the POST of the sample file is sent, or the read has failed
\* and the catch block runs.
TextSettled(r, read, outcome) ==
    /\ r \in requests
    /\ r.kind = "text"
    /\ IF read
       THEN /\ requests' = (requests \ {r})
                               \cup { Request("sample_upload",
                                              [ file |-> SampleFile(r.outcome.data[1]) ],
                                              outcome) }
            /\ nSent' = [ nSent EXCEPT !["sample_upload"] = @ + 1 ]
            /\ UNCHANGED << alerts, isAnalyzing >>
       ELSE /\ SampleCatch(r)
            /\ isAnalyzing' = IF crashed THEN isAnalyzing ELSE FALSE
    /\ UNCHANGED << uploadData, currentView, analysisResults, analysisSelection, crashed,
                    fileUploadVars, activeTab, selectionVars, resultsVars, nCalls >>
    /\ renderAnalysisSelection

\* handleUseSample from its axios.post on.
SampleUploadSettled(r) ==
    /\ r \in requests
    /\ r.kind = "sample_upload"
    /\ LET o == r.outcome
           rest == requests \ {r}
       IN  IF ~o.resolved
           THEN /\ SampleCatch(r)
                /\ isAnalyzing' = IF crashed THEN isAnalyzing ELSE FALSE
                /\ UNCHANGED << uploadData, currentView, analysisResults, analysisSelection,
                                crashed, fileUploadVars, activeTab, selectionVars, resultsVars >>
           ELSE IF crashed
           THEN /\ requests' = rest
                /\ UNCHANGED << appVars, fileUploadVars, activeTab, selectionVars, resultsVars,
                                alerts, nSent >>
           ELSE IF o.success
           THEN /\ Navigate("analysis", Some(o.data[1]), rest)
                /\ isAnalyzing' = FALSE
                /\ UNCHANGED << analysisResults, analysisSelection, alerts, nSent >>
           ELSE /\ requests' = rest
                /\ isAnalyzing' = FALSE
                /\ UNCHANGED << uploadData, currentView, analysisResults, analysisSelection,
                                crashed, fileUploadVars, activeTab, selectionVars, resultsVars,
                                alerts, nSent >>
    /\ UNCHANGED nCalls
    /\ renderAnalysisSelection


\* ------------------------------------------------------------------------
\* DataPreview
\* ------------------------------------------------------------------------

Tabs == { "preview", "columns", "stats", "analysis" }

\* setActiveTab(tab): a tab button, or the "Analyze Data" button for the
\* analysis tab.  Leaving the analysis tab unmounts AnalysisSelection.
setActiveTab(tab) ==
    /\ DataPreviewShown
    /\ activeTab' = tab
    /\ IF tab = "analysis" /\ activeTab = "analysis"
       THEN UNCHANGED selectionVars
       ELSE /\ selectedTest' = ""
            /\ selectedVariables' = << >>
            /\ groupVariable' = ""
    /\ UNCHANGED << appVars, fileUploadVars, resultsVars, envVars >>
    /\ renderAnalysisSelection

\* ------------------------------------------------------------------------
\* AnalysisSelection
\* ------------------------------------------------------------------------

\* A click on one of the cards of availableTests.
handleTestSelect(testId) ==
    /\ AnalysisSelectionMounted
    /\ \E i \in 1..Len(getAvailableTests(columnTypes)) :
           getAvailableTests(columnTypes)[i].id = testId
    /\ selectedTest' = testId
    /\ selectedVariables' = << >>
    /\ groupVariable' = ""
    /\ UNCHANGED << appVars, fileUploadVars, activeTab, resultsVars, envVars >>
    /\ renderAnalysisSelection

\* The change event of the checkbox of a column: the checkboxes are rendered
\* once a test is selected, one per column, and a disabled one fires nothing.
handleVariableSelect(variable) ==
    /\ AnalysisSelectionMounted
    /\ selectedTest # ""
    /\ Includes(allColumns(columnTypes), variable)
    /\ ~CheckboxDisabled(selectedTest, selectedVariables, variable)
    /\ selectedVariables' = handleVariableSelectResult(selectedTest, selectedVariables, variable)
    /\ UNCHANGED << selectedTest, groupVariable >>
    /\ UNCHANGED << appVars, fileUploadVars, activeTab, resultsVars, envVars >>
    /\ registry' = ArrayAfterFilter(ArrayAfterFind(registry))

\* handleVariableSelect called on the component in any state, whatever the
\* render shows: the handler has no test of its own but the lookup.
handleVariableSelectCalled(variable) ==
    /\ AnalysisSelectionMounted
    /\ Includes(allColumns(columnTypes), variable)
    /\ selectedVariables' = handleVariableSelectResult(selectedTest, selectedVariables, variable)
    /\ UNCHANGED << selectedTest, groupVariable >>
    /\ UNCHANGED << appVars, fileUploadVars, activeTab, resultsVars, envVars >>
    /\ registry' = ArrayAfterFilter(ArrayAfterFind(registry))

\* The VariableSelection that handleRunTest builds.
Selection(testId, variables, group) ==
    [ testId |-> testId,
      variables |-> variables,
      groupVariable |-> IF group # "" THEN Some(group) ELSE None ]

\* The JSON body of the analyze request.
AnalyzeBody(selection, data) ==
    [ test_id |-> selection.testId,
      variables |-> selection.variables,
      group_variable |-> selection.groupVariable,
      filename |-> data.filename ]

\* App.handleAnalyze up to its await.  Reading uploadData.filename of a null
\* uploadData throws inside the try block: the catch and finally blocks run
\* at once and nothing is sent.
handleAnalyze(selection, outcome) ==
    /\ analysisSelection' = Some(selection)
    /\ Called("handleAnalyze")
    /\ IF uploadData = None
       THEN /\ alerts' = Append(alerts, "Failed to run analysis")
            /\ isAnalyzing' = FALSE
            /\ UNCHANGED << requests, nSent >>
       ELSE /\ isAnalyzing' = TRUE
            /\ Send("analyze", AnalyzeBody(selection, uploadData[1]), outcome)
            /\ UNCHANGED alerts
    /\ UNCHANGED << uploadData, currentView, analysisResults, crashed >>

\* The "Run Analysis" button, rendered once a variable is selected;
\* onTestSelect is App.handleAnalyze, passed down through DataPreview.
handleRunTest(outcome) ==
    /\ AnalysisSelectionMounted
    /\ selectedTest # ""
    /\ Len(selectedVariables) > 0
    /\ handleAnalyze(Selection(selectedTest, selectedVariables, groupVariable), outcome)
    /\ UNCHANGED << fileUploadVars, activeTab, selectionVars, resultsVars >>
    /\ renderAnalysisSelection

\* ------------------------------------------------------------------------
\* App: analysis
\* ------------------------------------------------------------------------

\* A handleAnalyze that does not test response.data.success.
StoresResultsUnchecked(o) == TRUE

\* if (response.data.success) of handleAnalyze.
StoresResults(o) == o.success

\* setAnalysisResults(response.data.results): the results of the response
\* to r, stored as they come.
StoredResults(r) == Results(r.body)

\* A catch block that posts the failed request again.
AnalyzeCatchRetry(r) ==
    /\ alerts' = Append(alerts, AnalyzeErrorMessage(r.outcome))
    /\ requests' = (requests \ {r}) \cup { Request("analyze", r.body, r.outcome) }
    /\ nSent' = [ nSent EXCEPT !["analyze"] = @ + 1 ]

\* The catch block of handleAnalyze for request r: an alert, no request.
AnalyzeCatch(r) ==
    /\ alerts' = Append(alerts, AnalyzeErrorMessage(r.outcome))
    /\ requests' = requests \ {r}
    /\ UNCHANGED nSent

\* handleAnalyze from its await on.
AnalyzeSettled(r) ==
    /\ r \in requests
    /\ r.kind = "analyze"
    /\ LET o == r.outcome
           rest == requests \ {r}
       IN  IF ~o.resolved
           THEN /\ AnalyzeCatch(r)
                /\ isAnalyzing' = IF crashed THEN isAnalyzing ELSE FALSE
                /\ UNCHANGED << uploadData, currentView, analysisResults, analysisSelection,
                                crashed, fileUploadVars, activeTab, selectionVars, resultsVars >>
           ELSE IF crashed
           THEN /\ requests' = rest
                /\ UNCHANGED << appVars, fileUploadVars, activeTab, selectionVars, resultsVars,
                                alerts, nSent >>
           ELSE IF StoresResults(o)
           THEN /\ analysisResults' = Some(StoredResults(r))
                /\ Navigate("results", uploadData, rest)
                /\ isAnalyzing' = FALSE
                /\ UNCHANGED << analysisSelection, alerts, nSent >>
           ELSE /\ requests' = rest
                /\ isAnalyzing' = FALSE
                /\ UNCHANGED << uploadData, currentView, analysisResults, analysisSelection,
                                crashed, fileUploadVars, activeTab, selectionVars, resultsVars,
                                alerts, nSent >>
    /\ UNCHANGED nCalls
    /\ renderAnalysisSelection

\* "Back to Analysis", above and inside the results view.
handleBackToAnalysis ==
    /\ AnalysisResultsMounted
    /\ analysisResults' = None
    /\ Navigate("analysis", uploadData, requests)
    /\ UNCHANGED << isAnalyzing, analysisSelection, alerts, nCalls, nSent >>
    /\ renderAnalysisSelection

\* "Back to Upload", above the DataPreview.
handleBackToUpload ==
    /\ ~crashed
    /\ currentView = "analysis"
    /\ analysisResults' = None
    /\ analysisSelection' = None
    /\ Navigate("upload", None, requests)
    /\ UNCHANGED << isAnalyzing, alerts, nCalls, nSent >>
    /\ renderAnalysisSelection

\* ------------------------------------------------------------------------
\* AnalysisResults
\* ------------------------------------------------------------------------

\* The two tab buttons; the component renders nothing without results.
setResultsTab(tab) ==
    /\ AnalysisResultsMounted
    /\ analysisResults # None
    /\ resultsTab' = tab
    /\ UNCHANGED << appVars, fileUploadVars, activeTab, selectionVars, isDownloading, envVars >>
    /\ renderAnalysisSelection

\* ------------------------------------------------------------------------
\* DownloadReport
\* ------------------------------------------------------------------------

DownloadErrorMessage == "Failed to download report. Please try again."

\* The JSON body of the generate-pdf request: the props of DownloadReport,
\* which App computes from analysisResults, uploadData and
\* analysisSelection (variables default to [] without a selection).
DownloadBody ==
    [ results |-> analysisResults[1],
      filename |-> uploadData[1].filename,
      variables |-> IF analysisSelection = None THEN << >>
                    ELSE analysisSelection[1].variables,
      group_variable |-> IF analysisSelection = None THEN None
                         ELSE analysisSelection[1].groupVariable ]

\* handleDownload up to its await; the button is disabled while isDownloading.
handleDownload(outcome) ==
    /\ DownloadReportMounted
    /\ ~isDownloading
    /\ isDownloading' = TRUE
    /\ Send("download", DownloadBody, outcome)
    /\ Called("handleDownload")
    /\ UNCHANGED << appVars, fileUploadVars, activeTab, selectionVars, resultsTab, alerts >>
    /\ renderAnalysisSelection

\* A finally block that leaves the flag as it is.
DownloadFinallySkipped(r) == isDownloading

\* The finally block of handleDownload: setIsDownloading(false), which
\* reaches the DownloadReport that sent r if that one is still mounted.
DownloadFinally(r) ==
    IF r.live /\ DownloadReportMounted THEN FALSE ELSE isDownloading

\* handleDownload from its await on: the link is clicked or the catch block
\* alerts, then the finally block runs.
DownloadSettled(r) ==
    /\ r \in requests
    /\ r.kind = "download"
    /\ requests' = requests \ {r}
    /\ alerts' = IF r.outcome.resolved THEN alerts ELSE Append(alerts, DownloadErrorMessage)
    /\ isDownloading' = DownloadFinally(r)
    /\ UNCHANGED << appVars, fileUploadVars, activeTab, selectionVars, resultsTab,
                    nCalls, nSent >>
    /\ renderAnalysisSelection

\* What the results tab shows.
Rendered == renderResults(analysisResults[1])


\* ------------------------------------------------------------------------
\* Inputs: the files a user picks and the ways the server or the network
\* answers
\* ------------------------------------------------------------------------

CsvName == <<"d", ".", "c", "s", "v">>

GoodCsv == File(CsvName, "text/csv", 1024)

NumericData == Dataset("d.csv", << Col("x", "numeric") >>)

MixedData == Dataset("d.csv", << Col("x", "numeric"), Col("g", "categorical") >>)

SampleData == Dataset("sample_football_data.csv", << Col("x", "numeric") >>)

Timeout == Rejects("ECONNABORTED", 0, "", "timeout of 30000ms exceeded")

NetworkError == Rejects("ERR_NETWORK", 0, "", "Network Error")

AppFiles == { GoodCsv }

AppUploadOutcomes == { Succeeds(Some(NumericData)), Timeout }

\* The text of public/sample.csv as the server sends it.
SampleText == << "x", ",", "g" >>

FetchOutcomes == { Succeeds(Some(SampleText)), NetworkError }

\* response.text() resolves or rejects.
TextReads == { TRUE, FALSE }

SampleUploadOutcomes == { Succeeds(Some(SampleData)), Refuses("Could not parse file"), NetworkError }

AnalyzeOutcomes ==
    { Succeeds(None),
      Refuses(""),
      Rejects("ERR_BAD_REQUEST", 400, "Insufficient data", "Request failed with status code 400"),
      NetworkError }

DownloadOutcomes == { Succeeds(None), NetworkError }

Columns == { "x", "g" }

TestIds == { statisticalTests[i].id : i \in 1..Len(statisticalTests) }

\* ------------------------------------------------------------------------
\* The application
\* ------------------------------------------------------------------------

Next ==
    \/ CanCall /\ \E file \in AppFiles, o \in AppUploadOutcomes : handleFileInput(file, o)
    \/ CanCall /\ \E file \in AppFiles, o \in AppUploadOutcomes : handleDrop(file, o)
    \/ \E r \in requests : UploadSettled(r)
    \/ CanCall /\ \E o \in FetchOutcomes : handleUseSample(o)
    \/ \E r \in requests : FetchSettled(r)
    \/ \E r \in requests, read \in TextReads, o \in SampleUploadOutcomes : TextSettled(r, read, o)
    \/ \E r \in requests : SampleUploadSettled(r)
    \/ \E tab \in Tabs : setActiveTab(tab)
    \/ \E testId \in TestIds : handleTestSelect(testId)
    \/ \E column \in Columns : handleVariableSelect(column)
    \/ CanCall /\ \E o \in AnalyzeOutcomes : handleRunTest(o)
    \/ \E r \in requests : AnalyzeSettled(r)
    \/ handleBackToAnalysis
    \/ handleBackToUpload
    \/ \E tab \in { "results", "interpretation" } : setResultsTab(tab)
    \/ CanDownload /\ \E o \in DownloadOutcomes : handleDownload(o)
    \/ \E r \in requests : DownloadSettled(r)

Spec == Init /\ [][Next]_vars


\* ------------------------------------------------------------------------
\* The upload pane on its own: FileUpload with every kind of file and of
\* answer, App.handleFileUpload, and the way back to the upload view.
\* ------------------------------------------------------------------------

XlsxMime == "application/vnd.openxmlformats-officedocument.spreadsheetml.sheet"

\* No '.' in the name, and an image by its MIME type.
DotlessCsv == File(<<"c", "s", "v">>, "image/png", 1024)

\* Upper-case extension, no MIME type reported, exactly 10 MB.
UpperCsv == File(<<"d", ".", "C", "S", "V">>, "", MaxFileSize)

\* A spreadsheet by its MIME type only.
MimeXlsx == File(<<"d", ".", "p", "n", "g">>, XlsxMime, 1024)

Png == File(<<"d", ".", "p", "n", "g">>, "image/png", 1024)

\* One byte over 10 MB.
BigCsv == File(CsvName, "text/csv", MaxFileSize + 1)

\* The name ends with '.': the extension is empty.
TrailingDot == File(<<"c", "s", "v", ".">>, "", 1024)

UploadFiles == { DotlessCsv, UpperCsv, MimeXlsx, Png, BigCsv, TrailingDot }

UploadOutcomes ==
    { Succeeds(Some(NumericData)),
      Refuses("Could not parse file"),
      Refuses(""),
      Timeout,
      Rejects("ERR_BAD_REQUEST", 413, "", "Request failed with status code 413"),
      Rejects("ERR_BAD_REQUEST", 400, "Only CSV and XLSX files are supported",
              "Request failed with status code 400"),
      Rejects("ERR_BAD_REQUEST", 400, "", "Request failed with status code 400"),
      Rejects("ERR_BAD_RESPONSE", 500, "Error processing file",
              "Request failed with status code 500"),
      NetworkError,
      Rejects("", 0, "", "") }

NextUpload ==
    \/ CanCall /\ \E file \in UploadFiles, o \in UploadOutcomes : handleFileInput(file, o)
    \/ CanCall /\ \E file \in UploadFiles, o \in UploadOutcomes : handleDrop(file, o)
    \/ \E r \in requests : UploadSettled(r)
    \/ handleBackToUpload

SpecUpload == Init /\ [][NextUpload]_vars

\* ------------------------------------------------------------------------
\* The selection pane on its own: a dataset with a numeric and a
\* categorical column is uploaded, tests and variables are chosen, and
\* analyses are run; the answers stay in flight.
\* ------------------------------------------------------------------------

NextSelection ==
    \/ CanCall /\ handleFileInput(GoodCsv, Succeeds(Some(MixedData)))
    \/ \E r \in requests : UploadSettled(r)
    \/ \E tab \in Tabs : setActiveTab(tab)
    \/ \E testId \in TestIds : handleTestSelect(testId)
    \/ \E column \in Columns : handleVariableSelect(column)
    \/ CanCall /\ handleRunTest(Succeeds(None))

SpecSelection == Init /\ [][NextSelection]_vars

\* ------------------------------------------------------------------------
\* The list of available tests: datasets with every mix of column types
\* are uploaded, the tabs are visited and the cards of the list clicked.
\* ------------------------------------------------------------------------

AvailableData ==
    { Dataset("d.csv", column_types) :
          column_types \in
              { << >>,
                << Col("x", "numeric") >>,
                << Col("g", "categorical") >>,
                << Col("t", "datetime") >>,
                << Col("x", "numeric"), Col("g", "categorical") >>,
                << Col("g", "categorical"), Col("t", "datetime") >>,
                << Col("t", "datetime"), Col("x", "numeric"), Col("y", "numeric") >> } }

AvailableColumns == { "x", "y", "g", "t" }

NextAvailable ==
    \/ CanCall /\ \E d \in AvailableData : handleFileInput(GoodCsv, Succeeds(Some(d)))
    \/ \E r \in requests : UploadSettled(r)
    \/ \E tab \in Tabs : setActiveTab(tab)
    \/ \E testId \in TestIds : handleTestSelect(testId)
    \/ \E column \in AvailableColumns : handleVariableSelect(column)
    \/ handleBackToUpload

SpecAvailable == Init /\ [][NextAvailable]_vars

\* ------------------------------------------------------------------------
\* handleVariableSelect as a function of the component's state: the
\* AnalysisSelection is mounted over a dataset of four columns, and its
\* selectedTest and selectedVariables are drawn from sets that include no
\* test, an id that is not in the registry, and tests of every arity.
\* ------------------------------------------------------------------------

LookupData ==
    Dataset("d.csv", << Col("x", "numeric"), Col("y", "numeric"),
                        Col("g", "categorical"), Col("t", "datetime") >>)

LookupIds == { "", "unknown", "shapiro_wilk", "paired_t", "linear_regression" }

LookupSelections == { << >>, << "x" >>, << "g", "x" >> }

LookupColumns == { "x", "y", "g", "t" }

InitLookup ==
    /\ uploadData = Some(LookupData)
    /\ currentView = "analysis"
    /\ analysisResults = None
    /\ isAnalyzing = FALSE
    /\ analysisSelection = None
    /\ crashed = FALSE
    /\ selectedFile = None
    /\ isUploading = FALSE
    /\ uploadError = None
    /\ activeTab = "analysis"
    /\ selectedTest \in LookupIds
    /\ selectedVariables \in LookupSelections
    /\ groupVariable = ""
    /\ resultsTab = "results"
    /\ isDownloading = FALSE
    /\ registry = statisticalTests
    /\ requests = {}
    /\ alerts = << >>
    /\ nCalls = [ h \in Handlers |-> IF h = "uploadFile" THEN 1 ELSE 0 ]
    /\ nSent = [ k \in Kinds |-> IF k = "upload" THEN 1 ELSE 0 ]

NextLookup ==
    \/ \E column \in LookupColumns : handleVariableSelectCalled(column)
    \/ \E testId \in TestIds : handleTestSelect(testId)

SpecLookup == InitLookup /\ [][NextLookup]_vars

\* ------------------------------------------------------------------------
\* Choosing a test and its variables: a dataset with more columns than any
\* fixed arity is uploaded, every card is clicked and handleVariableSelect
\* is called for every column, whatever the checkboxes show.
\* ------------------------------------------------------------------------

NextChoice ==
    \/ CanCall /\ handleFileInput(GoodCsv, Succeeds(Some(LookupData)))
    \/ \E r \in requests : UploadSettled(r)
    \/ \E tab \in { "preview", "analysis" } : setActiveTab(tab)
    \/ \E testId \in TestIds : handleTestSelect(testId)
    \/ \E column \in LookupColumns : handleVariableSelectCalled(column)
    \/ handleBackToUpload

SpecChoice == Init /\ [][NextChoice]_vars

\* ------------------------------------------------------------------------
\* Overlapping requests: files dropped while an upload is in flight, the
\* sample loaded meanwhile, and analyses run again (from the keyboard, the
\* overlay covers the page but disables nothing) before the answer is in.
\* ------------------------------------------------------------------------

OverlapTests == { "shapiro_wilk", "pearson" }

OverlapOutcomes == { Succeeds(None), NetworkError }

NextOverlap ==
    \/ CanCallOverlap /\ handleDrop(GoodCsv, Succeeds(Some(MixedData)))
    \/ \E r \in requests : UploadSettled(r)
    \/ CanCallOverlap /\ handleUseSample(Succeeds(Some(SampleText)))
    \/ \E r \in requests : FetchSettled(r)
    \/ \E r \in requests : TextSettled(r, TRUE, Succeeds(Some(SampleData)))
    \/ \E r \in requests : SampleUploadSettled(r)
    \/ setActiveTab("analysis")
    \/ \E testId \in OverlapTests : handleTestSelect(testId)
    \/ \E column \in Columns : handleVariableSelect(column)
    \/ CanCallOverlap /\ \E o \in OverlapOutcomes : handleRunTest(o)
    \/ \E r \in requests : AnalyzeSettled(r)
    \/ handleBackToAnalysis
    \/ handleBackToUpload

SpecOverlap == Init /\ [][NextOverlap]_vars

\* ------------------------------------------------------------------------
\* Every handler that sets a busy flag, with the report download, under the
\* assumption that each request in flight is answered in the end.
\* ------------------------------------------------------------------------

NextLive ==
    \/ CanCall /\ \E o \in AppUploadOutcomes : handleFileInput(GoodCsv, o)
    \/ \E r \in requests : UploadSettled(r)
    \/ CanCall /\ \E o \in FetchOutcomes : handleUseSample(o)
    \/ \E r \in requests : FetchSettled(r)
    \/ \E r \in requests, read \in TextReads, o \in SampleUploadOutcomes : TextSettled(r, read, o)
    \/ \E r \in requests : SampleUploadSettled(r)
    \/ setActiveTab("analysis")
    \/ handleTestSelect("shapiro_wilk")
    \/ handleVariableSelect("x")
    \/ CanCall /\ \E o \in OverlapOutcomes : handleRunTest(o)
    \/ \E r \in requests : AnalyzeSettled(r)
    \/ handleBackToAnalysis
    \/ handleBackToUpload
    \/ CanDownload /\ \E o \in DownloadOutcomes : handleDownload(o)
    \/ \E r \in requests : DownloadSettled(r)

\* axios and fetch settle every promise: a request in flight is answered.
Answers ==
    /\ WF_vars(\E r \in requests : UploadSettled(r))
    /\ WF_vars(\E r \in requests : FetchSettled(r))
    /\ WF_vars(\E r \in requests, read \in TextReads, o \in SampleUploadOutcomes : TextSettled(r, read, o))
    /\ WF_vars(\E r \in requests : SampleUploadSettled(r))
    /\ WF_vars(\E r \in requests : AnalyzeSettled(r))
    /\ WF_vars(\E r \in requests : DownloadSettled(r))

SpecLive == Init /\ [][NextLive]_vars /\ Answers


\* ------------------------------------------------------------------------
\* Properties
\* ------------------------------------------------------------------------

Last(s) == s[Len(s)]

Range(s) == { s[i] : i \in 1..Len(s) }

\* The selection most recently passed to onTestSelect (handleAnalyze stores
\* its argument in analysisSelection before anything else).
Passed == analysisSelection[1]

PassedSpec == FindTest(Passed.testId)[1]

\* The required type of the i-th variable; the regression takes further
\* predictors of the type of its last declared slot.
SlotType(test, i) ==
    LET types == test.requirements.variableTypes
    IN  IF i <= Len(types) THEN types[i] ELSE types[Len(types)]

\* C1: every selection passed to onTestSelect has as many variables as the
\* selected test requires, or at least two for the test of unbounded arity.
C1_ArityRespected ==
    analysisSelection # None =>
        IF PassedSpec.requirements.variables = -1
        THEN Len(Passed.variables) >= 2
        ELSE Len(Passed.variables) = PassedSpec.requirements.variables

\* C2: in every selection passed to onTestSelect the i-th variable has the
\* type its slot requires.  columnTypes holds no cardinalities, so a numeric
\* column in a categorical slot is taken to be a low-cardinality one: only
\* a numeric slot can be filled wrongly here.
C2_TypesRespected ==
    (analysisSelection # None /\ uploadData # None) =>
        \A i \in 1..Len(Passed.variables) :
            LET type == TypeOf(columnTypes, Passed.variables[i])
            IN  /\ SlotType(PassedSpec, i) = "numeric" => type = "numeric"
                /\ SlotType(PassedSpec, i) = "categorical"
                       => type \in { "categorical", "numeric" }

GroupTests == { "independent_t", "anova", "mann_whitney", "levene" }

\* C3: a selection passed to onTestSelect for a test that partitions by
\* group names a group variable, and that variable is a categorical column.
C3_GroupVariableSet ==
    (analysisSelection # None /\ uploadData # None /\ Passed.testId \in GroupTests) =>
        /\ Passed.groupVariable # None
        /\ TypeOf(columnTypes, Passed.groupVariable[1]) = "categorical"

\* C4: the results of a registered test, once shown on the results tab, are
\* rendered by a branch of their own and never as 'Unknown test type'.
C4_EveryTestRendered ==
    ( /\ AnalysisResultsMounted
      /\ analysisResults # None
      /\ resultsTab = "results"
      /\ analysisResults[1].request.test_id \in TestIds )
        => Rendered # "Unknown test type"

\* Request r leaves the network in this step: its handler runs.
Answered(r) ==
    /\ r \in requests
    /\ \A q \in requests' : q.id # r.id

\* An analyze request that is answered in this step, and not with success.
AnalyzeFails(r) ==
    /\ r.kind = "analyze"
    /\ Failed(r.outcome)
    /\ Answered(r)

\* C5: the step in which a failed analyze request is answered leaves
\* analysisResults as it was and does not enter the results view.
C5_FailureKeepsResults ==
    [][ \A r \in requests :
            AnalyzeFails(r) =>
                /\ analysisResults' = analysisResults
                /\ currentView' = "results" => currentView = "results" ]_vars

AnalyzeFailureMessages ==
    { AnalyzeErrorMessage(o) : o \in { x \in AnalyzeOutcomes : ~x.resolved } }

\* A rejected analysis has been answered: its alert is the latest one, the
\* analysis view is still shown and there are no results.
C5_Witness ==
    /\ alerts # << >>
    /\ Last(alerts) \in AnalyzeFailureMessages
    /\ analysisSelection # None
    /\ currentView = "analysis"
    /\ analysisResults = None
    /\ ~isAnalyzing

\* C6: the step in which a failed analyze request is answered shows a
\* failure message: the response's detail, or 'Failed to run analysis'.
C6_FailureIsShown ==
    [][ \A r \in requests :
            AnalyzeFails(r) =>
                /\ Len(alerts') = Len(alerts) + 1
                /\ Last(alerts') = AnalyzeErrorMessage(r.outcome) ]_vars

\* A name has the extension ext when the text after its last '.', in lower
\* case, is ext; a name without '.' has no extension.
HasExtension(name, ext) ==
    /\ LastDot(name) > 0
    /\ Join(toLowerCase(SubSeq(name, LastDot(name) + 1, Len(name)))) = ext

IsCsvOrXlsx(file) ==
    \/ HasExtension(file.name, "csv")
    \/ HasExtension(file.name, "xlsx")
    \/ file.type \in { "text/csv", XlsxMime }

\* C7: an upload request is only ever sent for a file that is CSV or XLSX by
\* its extension or its MIME type and that is at most 10 MB large.
C7_OnlyAcceptedFilesSent ==
    \A r \in requests :
        r.kind = "upload" =>
            /\ IsCsvOrXlsx(r.body.file)
            /\ r.body.file.size <= 10 * 1024 * 1024

\* C8: an analyze request carries the selected test, the selected variables
\* and the group variable as they are when it is sent; and the selected
\* variables are kept in selection order: a click either appends the newly
\* selected variable or removes the deselected one, the others keeping
\* their order (so a variable selected again comes last), unless the
\* selection is emptied.
C8_RequestCarriesSelection ==
    [][ /\ \A r \in requests' \ requests :
               r.kind = "analyze" =>
                   /\ r.body.test_id = selectedTest
                   /\ r.body.variables = selectedVariables
                   /\ r.body.group_variable =
                          (IF groupVariable = "" THEN None ELSE Some(groupVariable))
        /\ (selectedTest' = selectedTest /\ selectedVariables' # selectedVariables) =>
               \/ \E c \in Columns :
                      /\ ~Includes(selectedVariables, c)
                      /\ selectedVariables' = Append(selectedVariables, c)
               \/ \E c \in Range(selectedVariables) :
                      selectedVariables' = SelectSeq(selectedVariables, LAMBDA v : v # c)
               \/ selectedVariables' = << >> ]_vars

\* A request is in flight whose variables are in the order of their
\* selection, which is not the order of the columns.
C8_Witness ==
    \E r \in requests :
        /\ r.kind = "analyze"
        /\ r.body.test_id = "independent_t"
        /\ r.body.variables = << "g", "x" >>
        /\ r.body.filename = "d.csv"

\* C9: every handler call sends its request once (handleUseSample its fetch
\* once and its upload at most once, after the fetch); a request is only
\* sent by a handler call or as the continuation of a fetch that resolved,
\* and the step that answers a failed request sends nothing.
C9_NoRetry ==
    /\ [] /\ nSent["analyze"] = nCalls["handleAnalyze"]
          /\ nSent["upload"] = nCalls["uploadFile"]
          /\ nSent["fetch"] = nCalls["handleUseSample"]
          /\ nSent["sample_upload"] <= nSent["fetch"]
    /\ [][ /\ nSent' # nSent =>
                  \/ nCalls' # nCalls
                  \/ \E r \in requests :
                         r.kind = "text" /\ Answered(r)
           /\ \A r \in requests :
                  (Failed(r.outcome) /\ Answered(r)) =>
                      /\ nSent' = nSent
                      /\ requests' = requests \ {r} ]_vars

\* An analysis and nothing else after the upload: its rejection has been
\* shown and nothing is in flight.
C9_Witness ==
    /\ nCalls["handleAnalyze"] = 1
    /\ nSent["analyze"] = 1
    /\ requests = {}
    /\ alerts # << >>
    /\ Last(alerts) = "Failed to run analysis"

\* An upload that times out and is answered in this step.
UploadTimesOut(r) ==
    /\ r.kind = "upload"
    /\ r.outcome.code = "ECONNABORTED"
    /\ Answered(r)

\* C10, as stated: the step in which an upload times out leaves uploadData
\* and currentView unchanged and sets uploadError to the timeout message.
C10_TimeoutSetsError ==
    [][ \A r \in requests :
            UploadTimesOut(r) =>
                /\ uploadData' = uploadData
                /\ currentView' = currentView
                /\ uploadError' = Some(TimeoutMessage) ]_vars

\* C10, amended: the step in which an upload times out leaves uploadData and
\* currentView unchanged; it sets uploadError to the timeout message when
\* the FileUpload that sent the request is still mounted, and leaves the
\* FileUpload state untouched when that component has unmounted.
C10_TimeoutDiscarded ==
    [][ \A r \in requests :
            UploadTimesOut(r) =>
                /\ uploadData' = uploadData
                /\ currentView' = currentView
                /\ r.live => uploadError' = Some(TimeoutMessage)
                /\ ~r.live => UNCHANGED fileUploadVars ]_vars

\* A timeout has reached the FileUpload that sent the request.
C10_Witness ==
    /\ FileUploadMounted
    /\ uploadError = Some(TimeoutMessage)
    /\ selectedFile # None
    /\ ~isUploading
    /\ uploadData = None

\* The position of a test in the registry as declared.
Declared(test) == CHOOSE k \in 1..Len(statisticalTests) : statisticalTests[k] = test

HasColumnOfType(types, type) == \E c \in 1..Len(types) : types[c].type = type

\* C11: for the column types of every uploaded dataset, getAvailableTests
\* lists tests of the registry in the order of their declaration, and lists a
\* test exactly when the dataset has a column of each type the test names;
\* the selected test is always one of the list.
C11_AvailableTests ==
    uploadData # None =>
        LET avail == getAvailableTests(columnTypes)
        IN  /\ \A i \in 1..Len(avail) : avail[i] \in Range(statisticalTests)
            /\ \A i, j \in 1..Len(avail) : i < j => Declared(avail[i]) < Declared(avail[j])
            /\ \A k \in 1..Len(statisticalTests) :
                   statisticalTests[k] \in Range(avail)
                       <=> \A type \in Range(statisticalTests[k].requirements.variableTypes) :
                               HasColumnOfType(columnTypes, type)
            /\ selectedTest # "" => \E i \in 1..Len(avail) : avail[i].id = selectedTest

\* A dataset with categorical and datetime columns only: the chi-square
\* test is the one test listed, and it has been selected.
C11_Witness ==
    /\ AnalysisSelectionMounted
    /\ columnTypes = << Col("g", "categorical"), Col("t", "datetime") >>
    /\ Len(getAvailableTests(columnTypes)) = 1
    /\ selectedTest = "chi_square"

\* C12: the registry is never mutated: whatever tests are selected,
\* variables clicked, analyses run and lists of available tests computed,
\* its entries and their order are those of its declaration.
C12_RegistryUnchanged == registry = statisticalTests

\* The regression has been selected, two variables clicked and the
\* analysis run: the list was filtered at each render and the registry
\* searched at each click.
C12_Witness ==
    /\ AnalysisSelectionMounted
    /\ selectedTest = "linear_regression"
    /\ selectedVariables = << "x", "g" >>
    /\ nSent["analyze"] = 1
    /\ registry = statisticalTests

\* C13: the ids of the registry are pairwise distinct, so the lookup of an
\* id finds nothing or the one test of that id; and when it finds nothing
\* (no test selected, or an id that is not registered) handleVariableSelect
\* leaves selectedVariables as they are.
C13_LookupById ==
    /\ [] /\ \A i, j \in 1..Len(registry) : registry[i].id = registry[j].id => i = j
          /\ \A id \in LookupIds \cup TestIds :
                 LET hits == { k \in 1..Len(registry) : registry[k].id = id }
                 IN  IF hits = {} THEN FindTest(id) = None
                     ELSE /\ Cardinality(hits) = 1
                          /\ \E k \in hits : FindTest(id) = Some(registry[k])
    /\ [][ (FindTest(selectedTest) = None /\ selectedTest' = selectedTest)
               => selectedVariables' = selectedVariables ]_vars

\* A component whose selected test is not in the registry, with a
\* selection that a click could change.
C13_Witness ==
    /\ AnalysisSelectionMounted
    /\ selectedTest = "unknown"
    /\ FindTest(selectedTest) = None
    /\ selectedVariables = << "g", "x" >>
    /\ ENABLED handleVariableSelectCalled("y")

\* The first check that a selection fails, in the order test id, variable
\* count, variables exist, variable types, group variable; "none" when it
\* passes them all.  The minimum sample sizes are a matter of the rows, which
\* the component does not hold: they are taken to be met.
FirstFailingCheck(selection, types) ==
    LET found == FindTest(selection.testId)
        test == found[1]
        n == Len(selection.variables)
    IN  IF found = None THEN "test_id"
        ELSE IF ~(IF test.requirements.variables = -1 THEN n >= 2
                  ELSE n = test.requirements.variables)
             THEN "variable_count"
        ELSE IF \E i \in 1..n : ~Includes(allColumns(types), selection.variables[i])
             THEN "missing_column"
        ELSE IF \E i \in 1..n :
                    /\ SlotType(test, i) = "numeric"
                    /\ TypeOf(types, selection.variables[i]) # "numeric"
             THEN "variable_type"
        ELSE IF /\ selection.testId \in GroupTests
                /\ \/ selection.groupVariable = None
                   \/ TypeOf(types, selection.groupVariable[1]) # "categorical"
             THEN "group_variable"
        ELSE "none"

\* C14: a selection is validated before it is run, check by check in the
\* fixed order, and a run stops at the first check that fails: every step in
\* which handleRunTest passes a selection on (and the analysis is requested)
\* is one whose selection fails no check.
C14_ValidationStopsRun ==
    [][ nCalls'["handleAnalyze"] # nCalls["handleAnalyze"]
            => FirstFailingCheck(analysisSelection'[1], columnTypes) = "none" ]_vars

\* C16: whenever the analysis view or the results view is shown, uploadData
\* is not null, also when the answer to an analysis or to a sample load
\* arrives after handleBackToUpload has cleared it.
C16_DataInViews ==
    currentView \in { "analysis", "results" } => uploadData # None

\* C17: whenever the results view is shown, analysisResults is the answer
\* to the request that was sent with the current analysisSelection and the
\* current uploadData.filename, in whatever order overlapping requests are
\* answered.
C17_ResultsMatchSelection ==
    (AnalysisResultsMounted /\ analysisResults # None) =>
        /\ analysisSelection # None
        /\ analysisResults[1].request = AnalyzeBody(analysisSelection[1], uploadData[1])

\* C18: analysisResults is not null exactly when the results view is shown:
\* no event leaves the results view, or enters it, otherwise.
C18_ResultsIffResultsView ==
    analysisResults # None <=> currentView = "results"

\* C19: isAnalyzing is true in every state in which a sample-load or an
\* analyze request of the App is still outstanding: the completion of one
\* request does not clear the flag while another is in flight.
C19_BusyWhileOutstanding ==
    (~crashed /\ \E r \in requests : r.kind \in { "fetch", "text", "sample_upload", "analyze" })
        => isAnalyzing

\* C20: every busy flag is cleared in the end.  Provided each request in
\* flight is answered, a state where isAnalyzing, isUploading or
\* isDownloading is true is followed by a state where that flag is false,
\* whether the request succeeds or fails.
C20_FlagsCleared ==
    /\ isAnalyzing ~> ~isAnalyzing
    /\ isUploading ~> ~isUploading
    /\ isDownloading ~> ~isDownloading

\* An upload, an analysis and a download have been called and answered, the
\* download with a failure, and no flag is left set.
C20_Witness ==
    /\ nCalls["uploadFile"] = 1
    /\ nCalls["handleAnalyze"] = 1
    /\ nCalls["handleDownload"] = 1
    /\ requests = {}
    /\ alerts = << DownloadErrorMessage >>
    /\ DownloadReportMounted
    /\ ~isAnalyzing /\ ~isUploading /\ ~isDownloading

\* A sequence in which no element occurs twice.
NoDuplicate(s) == \A i, j \in 1..Len(s) : s[i] = s[j] => i = j

\* The test is in the registry and takes a fixed number of variables.
FixedArity(testId) ==
    /\ FindTest(testId) # None
    /\ FindTest(testId)[1].requirements.variables # -1

\* C21: after any sequence of handleTestSelect and handleVariableSelect
\* calls selectedVariables has no duplicate and, for a test of fixed arity,
\* at most requirements.variables elements; a step that changes the selected
\* test leaves selectedVariables and groupVariable empty.
C21_SelectionWithinArity ==
    /\ [](/\ NoDuplicate(selectedVariables)
          /\ FixedArity(selectedTest) =>
                 Len(selectedVariables) <= FindTest(selectedTest)[1].requirements.variables)
    /\ [][ selectedTest' # selectedTest =>
               /\ selectedVariables' = << >>
               /\ groupVariable' = "" ]_vars

\* A test of two variables is selected over four columns and both of its
\* variables are chosen.
C21_Witness ==
    /\ AnalysisSelectionMounted
    /\ FixedArity(selectedTest)
    /\ FindTest(selectedTest)[1].requirements.variables = 2
    /\ Len(selectedVariables) = 2
    /\ Len(allColumns(columnTypes)) = 4

\* The upload requests in flight that the mounted FileUpload has sent.
UploadsInFlight == { r \in requests : r.kind = "upload" /\ r.live }

\* C22: a FileUpload has at most one upload request in flight: while
\* isUploading is true no click, file input change or drop starts a second
\* upload.
C22_OneUploadInFlight == Cardinality(UploadsInFlight) <= 1

=============================================================================
